---- MODULE Spec2Model ----
(***************************************************************************)
(* Host-authoritative game-state machine of the Werewolf table             *)
(* (src/App.tsx, third revision of the component, lines 1820-3047).        *)
(*                                                                         *)
(* The host's React component holds one GameState value (gs).  Every       *)
(* handler is a closure over the GameState of the render that created it:  *)
(* a handler run from the current render reads gs, while a setTimeout      *)
(* callback or the code after an await reads the GameState captured when   *)
(* the callback was created.  The pending countdown timeout (timer) and    *)
(* the other pending callbacks (pending) therefore carry the GameState     *)
(* they captured.                                                          *)
(***************************************************************************)
EXTENDS Integers, Sequences, FiniteSets, TLC

(* ------------------------------ bounds -------------------------------- *)
\* seats of the table of the main specification (config.totalPlayers)
NumSeats == 6
\* nights played before the host stops starting new ones
MaxRound == 2
\* callbacks (timeouts, awaited narrative calls) pending at once
MaxPending == 1
\* shuffle steps of a game of the main specification that move a role
MaxSwaps == 1
\* days played before the host stops opening discussions
MaxDays == 1
\* living seats, lowest first, that cast votes in a Voting phase
MaxVoters == 1
\* seats, lowest first, the Seer chooses among
SeerChoices == 1
\* the seats a player enters as a target: the lowest MaxTargets
MaxTargets == 3
\* entries of the narrative log when a vote is last resolved
MaxLog == 3

(* --------------------------- program constants ------------------------ *)
ACTION_TIMEOUT_SECONDS == 20

\* number | null: null is modelled as -1
Null == -1

Role == {"WEREWOLF", "VILLAGER", "SEER", "HUNTER", "WITCH"}
\* key order of roleCounts (the order Object.entries enumerates)
RoleOrder == <<"WEREWOLF", "VILLAGER", "SEER", "HUNTER", "WITCH">>

VARIABLES gs, timer, pending, net

vars == <<gs, timer, pending, net>>

(* ------------------------------ helpers -------------------------------- *)
Seats(g) == 0 .. (Len(g.players) - 1)

\* players.find(p => p.id === id); player ids are array indexes
PlayerAt(g, id) == g.players[id + 1]

Repeat(x, n) == [i \in 1 .. n |-> x]

\* GameSetup.isValid, with the max = 1 limit on Seer, Witch and Hunter rows
\* and the automatic Villager balance
ValidConfigs(n) ==
  { [totalPlayers |-> n,
     roleCounts |-> [WEREWOLF |-> w, VILLAGER |-> n - (w + s + wi + h),
                     SEER |-> s, HUNTER |-> h, WITCH |-> wi]] :
      <<w, s, wi, h>> \in
        { q \in (1 .. n) \X (0 .. 1) \X (0 .. 1) \X (0 .. 1) :
            q[1] + q[2] + q[3] + q[4] <= n } }

createInitialState ==
  [ mode |-> 6,
    config |-> [totalPlayers |-> 6,
                roleCounts |-> [WEREWOLF |-> 2, VILLAGER |-> 2, SEER |-> 1,
                                HUNTER |-> 1, WITCH |-> 0]],
    phase |-> "SETUP",
    round |-> 0,
    players |-> << >>,
    nightStep |-> "NONE",
    timeLeft |-> 0,
    wolvesTargetId |-> Null,
    seerCheckId |-> Null,
    witchSaveUsed |-> FALSE,
    witchPoisonUsed |-> FALSE,
    witchAction |-> [save |-> FALSE, poisonTargetId |-> Null],
    hunterTargetId |-> Null,
    currentVotes |-> << >>,
    wolfChatHistory |-> << >>,
    publicChatHistory |-> << >>,
    lastNightDeadIds |-> << >>,
    winner |-> "null",
    storyLog |-> << >>,
    currentStory |-> "",
    isLoadingStory |-> FALSE ]

NewPlayer(id) ==
  [id |-> id, role |-> "VILLAGER", isAlive |-> TRUE, hasLastWords |-> FALSE]

createRoom(config) ==
  [createInitialState EXCEPT
     !.mode = config.totalPlayers,
     !.config = config,
     !.phase = "LOBBY",
     !.players = <<NewPlayer(0)>>]

(* --------------------- Timer System (host only) ------------------------ *)
NoTimer == [armed |-> FALSE]

isActionPhase(g) == g.phase = "NIGHT" /\ g.nightStep # "NONE"

TimerDeps(g) == <<g.timeLeft, g.phase, g.nightStep>>

\* The effect after a render that replaced GameState old by new: when a
\* dependency changed the pending timeout is cleared and, in an action
\* phase with time left, a new one is set that captures the new GameState;
\* otherwise the pending timeout, with the GameState it captured, stays.
TimerEffect(old, new, t) ==
  IF TimerDeps(old) = TimerDeps(new) THEN t
  ELSE IF isActionPhase(new) /\ new.timeLeft > 0
       THEN [armed |-> TRUE, snap |-> new]
       ELSE NoTimer

\* a handler's outcome: the last GameState it set and the callbacks it left
Out(state, cbs) == [state |-> state, cbs |-> cbs]

\* a pending callback: what it does, the GameState value it writes from
\* (snap) and the GameState of the render whose functions it calls (stale)
Cb(kind, snap, stale) == [kind |-> kind, snap |-> snap, stale |-> stale]

(* ----------------------------- network --------------------------------- *)
\* the clients whose connection, inbox and GameState are followed
NetClients == 2
\* broadcasts sent to one client and not yet handled by it, when the host
\* starts a handler that broadcasts
MaxWire == 1
\* messages sent to the host and not yet handled by it
MaxUp == 2

Conns == 1 .. NetClients

\* a specification that follows no client
NoNet == [on |-> FALSE]

Welcome(playerId, g) == [type |-> "WELCOME", playerId |-> playerId, gameState |-> g]
StateUpdate(g) == [type |-> "STATE_UPDATE", playerId |-> Null, gameState |-> g]

\* conn.send(msg) on the host's connection c
send(n, c, msg) == [n EXCEPT !.wire[c] = Append(@, msg)]

\* a host that keeps its writes to itself
broadcastState_Silent(n, g) == n

\* broadcastState: a STATE_UPDATE on every connection of connectionsRef
broadcastState(n, g) ==
  IF ~n.on THEN n
  ELSE [n EXCEPT !.wire = [c \in Conns |->
                             IF c \in n.conns THEN Append(n.wire[c], StateUpdate(g))
                             ELSE n.wire[c]]]

\* every open connection can take k more broadcasts
WireRoom(n, k) == n.on => \A c \in n.conns : Len(n.wire[c]) + k <= MaxWire

\* a handler run that leaves outcome o; t is the countdown timeout pending
\* while it runs
ApplyWithin(o, t, cap) ==
  /\ Len(pending) + Len(o.cbs) <= cap
  /\ WireRoom(net, 1)
  /\ gs' = o.state
  /\ timer' = TimerEffect(gs, o.state, t)
  /\ pending' = pending \o o.cbs
  /\ net' = broadcastState(net, o.state)

Apply(o, t) == ApplyWithin(o, t, MaxPending)

(* ----------------------------- lobby ----------------------------------- *)
\* handleNetworkMessage, JOIN branch (host)
handleJoin(g) ==
  [g EXCEPT !.players = Append(g.players, NewPlayer(Len(g.players)))]

Join(limit) ==
  /\ gs.phase = "LOBBY"
  /\ Len(gs.players) < limit
  /\ Apply(Out(handleJoin(gs), << >>), timer)

(* --------------------------- role assignment --------------------------- *)
RECURSIVE Flatten(_)
Flatten(ss) == IF ss = << >> THEN << >> ELSE Head(ss) \o Flatten(Tail(ss))

\* roles pushed per roleCounts entry, in key order
BuildRoles(config) ==
  Flatten([k \in 1 .. Len(RoleOrder) |->
             Repeat(RoleOrder[k], config.roleCounts[RoleOrder[k]])])

\* while (roles.length < players.length) roles.push(VILLAGER)
PadRoles(roles, n) ==
  IF Len(roles) < n THEN roles \o Repeat("VILLAGER", n - Len(roles)) ELSE roles

\* the values Math.floor(Math.random() * (i + 1)) can take, for i = 1 .. n-1
Draws(n) == { d \in [1 .. (n - 1) -> 0 .. (n - 1)] : \A i \in DOMAIN d : d[i] <= i }

Swap(r, a, b) == [r EXCEPT ![a] = r[b], ![b] = r[a]]

\* for (i = roles.length - 1; i > 0; i--) swap roles[i], roles[j]
\* (array index i is sequence position i + 1)
RECURSIVE Shuffle(_, _, _)
Shuffle(r, i, d) ==
  IF i <= 0 THEN r ELSE Shuffle(Swap(r, i + 1, d[i] + 1), i - 1, d)

\* roles[i] || Role.VILLAGER
RoleOrVillager(roles, i) == IF i + 1 \in DOMAIN roles THEN roles[i + 1] ELSE "VILLAGER"

AssignRoles(ps, roles) ==
  [i \in 1 .. Len(ps) |->
     [ps[i] EXCEPT !.role = RoleOrVillager(roles, i - 1), !.hasLastWords = FALSE]]

startGame(g, d) ==
  [g EXCEPT
     !.players = AssignRoles(g.players,
                   Shuffle(PadRoles(BuildRoles(g.config), Len(g.players)),
                           Len(PadRoles(BuildRoles(g.config), Len(g.players))) - 1, d)),
     !.phase = "ROLE_REVEAL",
     !.storyLog = <<"start">>]

\* draws with at most k steps that swap two different places
DrawsWithin(n, k) ==
  { d \in Draws(n) : Cardinality({ i \in DOMAIN d : d[i] # i }) <= k }

\* the start button of the lobby is disabled while players.length < mode
StartGame(k) ==
  /\ gs.phase = "LOBBY"
  /\ Len(gs.players) >= gs.mode
  /\ \E d \in DrawsWithin(Len(PadRoles(BuildRoles(gs.config), Len(gs.players))), k) :
       Apply(Out(startGame(gs, d), << >>), timer)

(* ------------------------------ night ---------------------------------- *)
\* a startNight that leaves the countdown as it is
startNight_KeepTime(g) ==
  [g EXCEPT
     !.phase = "NIGHT",
     !.round = g.round + 1,
     !.nightStep = "WEREWOLF_ACTION",
     !.wolvesTargetId = Null,
     !.seerCheckId = Null,
     !.witchAction = [save |-> FALSE, poisonTargetId |-> Null],
     !.hunterTargetId = Null,
     !.currentVotes = << >>,
     !.currentStory = "wolves open eyes"]

startNight(g) ==
  [g EXCEPT
     !.phase = "NIGHT",
     !.round = g.round + 1,
     !.nightStep = "WEREWOLF_ACTION",
     !.timeLeft = ACTION_TIMEOUT_SECONDS,
     !.wolvesTargetId = Null,
     !.seerCheckId = Null,
     !.witchAction = [save |-> FALSE, poisonTargetId |-> Null],
     !.hunterTargetId = Null,
     !.currentVotes = << >>,
     !.currentStory = "wolves open eyes"]

handleWolfSelect(g, targetId) == [g EXCEPT !.wolvesTargetId = targetId]

handleSeerCheck(g, targetId) == [g EXCEPT !.seerCheckId = targetId]

\* targetId || null: seat 0 is falsy
OrNull(targetId) == IF targetId = 0 THEN Null ELSE targetId

handleWitchAction(g, type, targetId) ==
  [g EXCEPT
     !.witchAction =
        [save |-> IF type = "save" THEN ~g.witchAction.save ELSE g.witchAction.save,
         poisonTargetId |-> IF type = "poison" THEN OrNull(targetId)
                            ELSE g.witchAction.poisonTargetId]]

handleHunterShoot(g, targetId) == [g EXCEPT !.hunterTargetId = targetId]

\* a death set that keeps every mention
Dedupe_KeepAll(s) == s

\* [...new Set(deadIds)]: first occurrences, in order
RECURSIVE Dedupe(_)
Dedupe(s) ==
  IF s = << >> THEN << >>
  ELSE LET r == Dedupe(SubSeq(s, 1, Len(s) - 1))
           x == s[Len(s)]
       IN IF \E i \in DOMAIN r : r[i] = x THEN r ELSE Append(r, x)

Includes(s, x) == \E i \in DOMAIN s : s[i] = x

\* a death set that takes no notice of the antidote
DeadIds_IgnoreSave(wolvesTargetId, witchAction) ==
  Dedupe((IF wolvesTargetId # Null THEN <<wolvesTargetId>> ELSE << >>)
         \o (IF witchAction.poisonTargetId # Null
               THEN <<witchAction.poisonTargetId>> ELSE << >>))

\* resolveNight, lines 2384-2390
DeadIds(wolvesTargetId, witchAction) ==
  Dedupe((IF wolvesTargetId # Null /\ ~witchAction.save
            THEN <<wolvesTargetId>> ELSE << >>)
         \o (IF witchAction.poisonTargetId # Null
               THEN <<witchAction.poisonTargetId>> ELSE << >>))

\* night deaths that grant last words in every round
ApplyNightDeaths_EveryRound(ps, deadIds, round) ==
  [i \in 1 .. Len(ps) |->
     [ps[i] EXCEPT
        !.isAlive = IF Includes(deadIds, ps[i].id) THEN FALSE ELSE ps[i].isAlive,
        !.hasLastWords = IF Includes(deadIds, ps[i].id)
                         THEN TRUE ELSE ps[i].hasLastWords]]

\* resolveNight, lines 2392-2399
ApplyNightDeaths(ps, deadIds, round) ==
  [i \in 1 .. Len(ps) |->
     [ps[i] EXCEPT
        !.isAlive = IF Includes(deadIds, ps[i].id) THEN FALSE ELSE ps[i].isAlive,
        !.hasLastWords = IF Includes(deadIds, ps[i].id) /\ round = 1
                         THEN TRUE ELSE ps[i].hasLastWords]]

\* updatedPlayers.find(p => p.role === Role.HUNTER): the first one, or none
HunterIds(ps) == { ps[i].id : i \in { k \in DOMAIN ps : ps[k].role = "HUNTER" } }
FirstHunter(ps) ==
  IF HunterIds(ps) = {} THEN Null
  ELSE CHOOSE h \in HunterIds(ps) : \A o \in HunterIds(ps) : h <= o

\* a Hunter who shoots whatever killed them
CanHunterShoot_AlsoPoisoned(ps, deadIds, witchAction) ==
  /\ FirstHunter(ps) # Null
  /\ Includes(deadIds, FirstHunter(ps))

\* resolveNight, lines 2401-2404
CanHunterShoot(ps, deadIds, witchAction) ==
  /\ FirstHunter(ps) # Null
  /\ Includes(deadIds, FirstHunter(ps))
  /\ witchAction.poisonTargetId # FirstHunter(ps)

resolveNight(cur) ==
  LET deadIds == DeadIds(cur.wolvesTargetId, cur.witchAction)
      updatedPlayers == ApplyNightDeaths(cur.players, deadIds, cur.round)
      can == CanHunterShoot(updatedPlayers, deadIds, cur.witchAction)
      newState == [cur EXCEPT
                     !.players = updatedPlayers,
                     !.lastNightDeadIds = deadIds,
                     !.phase = IF can THEN "NIGHT" ELSE "DAY_TRANSITION",
                     !.nightStep = IF can THEN "HUNTER_ACTION" ELSE "NONE",
                     !.isLoadingStory = TRUE,
                     !.timeLeft = IF can THEN ACTION_TIMEOUT_SECONDS ELSE 0]
  IN IF can
       THEN Out([newState EXCEPT !.currentStory = "hunter open eyes",
                                 !.isLoadingStory = FALSE], << >>)
       ELSE Out(newState, <<Cb("NightStory", newState, cur)>>)

\* confirmWolfAction, lines 2303-2310
NextAfterWolf(config) ==
  IF config.roleCounts["SEER"] # 0 THEN "SEER_ACTION"
  ELSE IF config.roleCounts["WITCH"] # 0 THEN "WITCH_ACTION"
  ELSE "NONE"

confirmWolfAction(g) ==
  LET nextStep == NextAfterWolf(g.config)
      newState == [g EXCEPT
                     !.nightStep = nextStep,
                     !.currentStory = IF nextStep = "NONE" THEN "dawn"
                                      ELSE IF nextStep = "SEER_ACTION"
                                      THEN "seer open eyes" ELSE "witch open eyes",
                     !.timeLeft = IF nextStep = "NONE" THEN 0
                                  ELSE ACTION_TIMEOUT_SECONDS]
  IN IF nextStep = "NONE" THEN resolveNight(newState) ELSE Out(newState, << >>)

\* confirmSeerAction, lines 2339-2343
NextAfterSeer(config) ==
  IF config.roleCounts["WITCH"] # 0 THEN "WITCH_ACTION" ELSE "NONE"

confirmSeerAction(g) ==
  LET nextStep == NextAfterSeer(g.config)
      newState == [g EXCEPT
                     !.nightStep = nextStep,
                     !.currentStory = IF nextStep = "NONE" THEN "dawn"
                                      ELSE "witch open eyes",
                     !.timeLeft = IF nextStep = "NONE" THEN 0
                                  ELSE ACTION_TIMEOUT_SECONDS]
  IN IF nextStep = "NONE" THEN resolveNight(newState) ELSE Out(newState, << >>)

confirmWitchAction(g) ==
  resolveNight([g EXCEPT
     !.witchSaveUsed = IF g.witchAction.save THEN TRUE ELSE g.witchSaveUsed,
     !.witchPoisonUsed = IF g.witchAction.poisonTargetId # Null THEN TRUE
                         ELSE g.witchPoisonUsed,
     !.nightStep = "NONE",
     !.currentStory = "witch close eyes, dawn",
     !.timeLeft = 0])


(* ------------------------------ hunter --------------------------------- *)
\* a forfeit that leaves the night step as it is
confirmHunterAction_KeepStep(g) ==
  LET newState == [g EXCEPT
                     !.phase = "DAY_TRANSITION",
                     !.timeLeft = 0,
                     !.isLoadingStory = TRUE]
  IN Out(newState, <<Cb("HunterForfeitStory", newState, g)>>)

\* a confirmation that forgets the night's dead when the shot is forfeited
confirmHunterAction_ForgetDead(g) ==
  LET newState == [g EXCEPT
                     !.phase = "DAY_TRANSITION",
                     !.nightStep = "NONE",
                     !.timeLeft = 0,
                     !.isLoadingStory = TRUE,
                     !.lastNightDeadIds = << >>]
  IN Out(newState, <<Cb("HunterForfeitStory", newState, g)>>)

\* a confirmation that ends the game for the Villagers after the Hunter's step
confirmHunterAction_Victory(g) ==
  LET newState == [g EXCEPT
                     !.phase = "GAME_OVER",
                     !.winner = "VILLAGERS",
                     !.nightStep = "NONE",
                     !.timeLeft = 0,
                     !.isLoadingStory = TRUE]
  IN Out(newState, <<Cb("HunterForfeitStory", newState, g)>>)

confirmHunterAction(g) ==
  IF g.hunterTargetId = Null
    THEN LET newState == [g EXCEPT
                            !.phase = "DAY_TRANSITION",
                            !.nightStep = "NONE",
                            !.timeLeft = 0,
                            !.isLoadingStory = TRUE]
         IN Out(newState, <<Cb("HunterForfeitStory", newState, g)>>)
    ELSE LET newDeadId == g.hunterTargetId
             updatedPlayers ==
               [i \in 1 .. Len(g.players) |->
                  [g.players[i] EXCEPT
                     !.isAlive = IF g.players[i].id = newDeadId THEN FALSE
                                 ELSE g.players[i].isAlive]]
             newState == [g EXCEPT
                            !.players = updatedPlayers,
                            !.lastNightDeadIds = Append(g.lastNightDeadIds, newDeadId),
                            !.phase = "DAY_TRANSITION",
                            !.nightStep = "NONE",
                            !.isLoadingStory = TRUE,
                            !.timeLeft = 0]
         IN Out(newState, <<Cb("HunterShotStory", newState, g)>>)

\* handleTimerExpire: the confirm of the current step
handleTimerExpire(g) ==
  CASE g.nightStep = "WEREWOLF_ACTION" -> confirmWolfAction(g)
    [] g.nightStep = "SEER_ACTION" -> confirmSeerAction(g)
    [] g.nightStep = "WITCH_ACTION" -> confirmWitchAction(g)
    [] g.nightStep = "HUNTER_ACTION" -> confirmHunterAction(g)
    [] OTHER -> Out([g EXCEPT !.timeLeft = 0], << >>)

\* the timeout callback of the Timer System effect, run on the GameState
\* the effect captured
timerCallback(snap) ==
  LET newTime == snap.timeLeft - 1
  IN IF newTime <= 0 THEN handleTimerExpire(snap)
     ELSE Out([snap EXCEPT !.timeLeft = newTime], << >>)

(* -------------------------------- day ---------------------------------- *)
startDiscussion(g) ==
  Out([g EXCEPT !.phase = "DAY_DISCUSSION", !.isLoadingStory = TRUE],
      <<Cb("DiscussionTopic", g, g)>>)

startVoting(g) ==
  [g EXCEPT !.currentVotes = << >>,
            !.phase = "VOTING",
            !.currentStory = "please vote"]

\* handleClientAction, VOTE branch
handleVote(g, fromId, targetId) ==
  [g EXCEPT !.currentVotes = (fromId :> targetId) @@ g.currentVotes]

\* voteCounts[targetId]: the number of voters naming targetId
VoteCount(votes, id) == Cardinality({ v \in DOMAIN votes : votes[v] = id })

\* the forEach over Object.entries(voteCounts): keys in ascending order,
\* only targets that received a vote
RECURSIVE TallyFrom(_, _, _, _)
TallyFrom(votes, id, last, acc) ==
  IF id > last THEN acc
  ELSE LET count == VoteCount(votes, id)
           nxt == IF count = 0 THEN acc
                  ELSE IF count > acc.maxVotes
                    THEN [maxVotes |-> count, exiledId |-> id, isTie |-> FALSE]
                  ELSE IF count = acc.maxVotes
                    THEN [acc EXCEPT !.isTie = TRUE]
                  ELSE acc
       IN TallyFrom(votes, id + 1, last, nxt)

MaxTarget(votes) ==
  IF DOMAIN votes = {} THEN Null
  ELSE CHOOSE m \in { votes[v] : v \in DOMAIN votes } :
         \A v \in DOMAIN votes : votes[v] <= m

Tally(votes) ==
  TallyFrom(votes, 0, MaxTarget(votes),
            [maxVotes |-> 0, exiledId |-> Null, isTie |-> FALSE])

\* a tally that exiles the first seat at the maximum, tie or not
Exiled_IgnoreTie(votes) == Tally(votes).exiledId

\* the seat submitVotes exiles, or Null
Exiled(votes) ==
  IF Tally(votes).isTie \/ Tally(votes).exiledId = Null THEN Null
  ELSE Tally(votes).exiledId

submitVotes(g) ==
  LET exiledId == Exiled(g.currentVotes)
  IN IF exiledId = Null
       THEN LET tieState == [g EXCEPT !.storyLog = Append(g.storyLog, "tie"),
                                      !.currentStory = "tie, night falls"]
            IN Out(tieState, <<Cb("TieStartNight", tieState, g)>>)
       ELSE LET updatedPlayers ==
                  [i \in 1 .. Len(g.players) |->
                     [g.players[i] EXCEPT
                        !.isAlive = IF g.players[i].id = exiledId THEN FALSE
                                    ELSE g.players[i].isAlive,
                        !.hasLastWords = IF g.players[i].id = exiledId THEN TRUE
                                         ELSE g.players[i].hasLastWords]]
                newState == [g EXCEPT
                               !.players = updatedPlayers,
                               !.storyLog = Append(g.storyLog, "exile"),
                               !.currentStory = "exiled, last words"]
            IN IF PlayerAt(g, exiledId).role = "HUNTER"
                 THEN Out(newState, <<Cb("HunterExile", newState, g)>>)
                 ELSE Out(newState, <<Cb("VictoryCheck", newState, g)>>)

(* ----------------------------- victory --------------------------------- *)
Wolves(ps) == { i \in DOMAIN ps : ps[i].isAlive /\ ps[i].role = "WEREWOLF" }
Good(ps) == { i \in DOMAIN ps : ps[i].isAlive /\ ps[i].role # "WEREWOLF" }

\* a victory rule that needs the Werewolves to outnumber the others
Winner_Outnumber(ps) ==
  IF Cardinality(Wolves(ps)) = 0 THEN "VILLAGERS"
  ELSE IF Cardinality(Wolves(ps)) > Cardinality(Good(ps)) THEN "WEREWOLVES"
  ELSE "null"

\* lines 2580-2584: the winner, or "null" when the game goes on
Winner(ps) ==
  IF Cardinality(Wolves(ps)) = 0 THEN "VILLAGERS"
  ELSE IF Cardinality(Wolves(ps)) >= Cardinality(Good(ps)) THEN "WEREWOLVES"
  ELSE "null"

(* ------------------------ pending callbacks ---------------------------- *)
\* a story written without clearing the loading flag
storyState_StillLoading(newState, entry) ==
  [newState EXCEPT !.currentStory = "night story",
                   !.storyLog = Append(newState.storyLog, entry)]

\* the state written when generateNightStory has returned (lines 2425-2431,
\* 2466-2471, 2495-2500)
storyState(newState, entry) ==
  [newState EXCEPT !.currentStory = "night story",
                   !.storyLog = Append(newState.storyLog, entry),
                   !.isLoadingStory = FALSE]

\* what a pending callback writes when it runs
runCallback(cb) ==
  CASE cb.kind \in {"NightStory", "HunterForfeitStory"} -> storyState(cb.snap, "night")
    [] cb.kind = "HunterShotStory" -> storyState(cb.snap, "hunter shot")
    [] cb.kind = "DiscussionTopic" ->
         [cb.stale EXCEPT !.phase = "DAY_DISCUSSION",
                          !.currentStory = "topic",
                          !.isLoadingStory = FALSE]
    [] cb.kind = "TieStartNight" -> startNight(cb.stale)
    [] cb.kind = "HunterExile" ->
         [cb.snap EXCEPT !.phase = "NIGHT",
                         !.nightStep = "HUNTER_ACTION",
                         !.hunterTargetId = Null,
                         !.currentStory = "hunter exiled, shoot",
                         !.timeLeft = ACTION_TIMEOUT_SECONDS]
    [] cb.kind = "VictoryCheck" ->
         IF Winner(cb.snap.players) # "null"
           THEN [cb.snap EXCEPT !.phase = "GAME_OVER",
                                !.winner = Winner(cb.snap.players)]
           ELSE startNight(cb.stale)

RemoveAt(s, k) == SubSeq(s, 1, k - 1) \o SubSeq(s, k + 1, Len(s))


(* ------------------------- client actions ------------------------------ *)
\* handleClientAction: the host applies an ACTION message (or its own
\* player's action) without looking at the phase, the step or the sender
handleClientAction(g, action, type, targetId, fromId) ==
  IF action = "VOTE" THEN handleVote(g, fromId, targetId)
  ELSE IF action # "NIGHT_ACTION" THEN g
  ELSE CASE type = "WOLF_KILL" -> handleWolfSelect(g, targetId)
         [] type = "SEER_CHECK" -> handleSeerCheck(g, targetId)
         [] type = "WITCH_SAVE" -> handleWitchAction(g, "save", Null)
         [] type = "WITCH_POISON" -> handleWitchAction(g, "poison", targetId)
         [] type = "HUNTER_SHOOT" -> handleHunterShoot(g, targetId)
         [] OTHER -> g

NightActionTypes ==
  {"WOLF_KILL", "SEER_CHECK", "WITCH_SAVE", "WITCH_POISON", "HUNTER_SHOOT"}

(* ------------------------------ actions -------------------------------- *)
\* handleSeatInput: the seat numbers of the table, here the lowest ones
Targets(g) == { t \in Seats(g) : t < MaxTargets }

HasLiving(g, role) ==
  \E i \in DOMAIN g.players : g.players[i].role = role /\ g.players[i].isAlive

\* the "enter night" button of the role-reveal screen
StartNight ==
  /\ gs.phase = "ROLE_REVEAL"
  /\ gs.round < MaxRound
  /\ Apply(Out(startNight(gs), << >>), timer)

\* renderGame, isWolfTurn: a living Werewolf enters a seat number
WolfSelect ==
  /\ gs.phase = "NIGHT" /\ gs.nightStep = "WEREWOLF_ACTION"
  /\ HasLiving(gs, "WEREWOLF")
  /\ \E t \in Targets(gs) : Apply(Out(handleWolfSelect(gs, t), << >>), timer)

\* renderGame, isSeerTurn: the check button locks once a seat is checked
SeerCheck ==
  /\ gs.phase = "NIGHT" /\ gs.nightStep = "SEER_ACTION"
  /\ HasLiving(gs, "SEER")
  /\ gs.seerCheckId = Null
  /\ \E t \in Seats(gs) :
       /\ t < SeerChoices
       /\ Apply(Out(handleSeerCheck(gs, t), << >>), timer)

\* renderGame, isWitchTurn: the antidote button
WitchSave ==
  /\ gs.phase = "NIGHT" /\ gs.nightStep = "WITCH_ACTION"
  /\ HasLiving(gs, "WITCH")
  /\ ~gs.witchSaveUsed /\ gs.wolvesTargetId # Null
  /\ Apply(Out(handleWitchAction(gs, "save", Null), << >>), timer)

\* renderGame, isWitchTurn: the poison button
WitchPoison ==
  /\ gs.phase = "NIGHT" /\ gs.nightStep = "WITCH_ACTION"
  /\ HasLiving(gs, "WITCH")
  /\ ~gs.witchPoisonUsed
  /\ \E t \in Targets(gs) :
       Apply(Out(handleWitchAction(gs, "poison", t), << >>), timer)

\* renderGame, isHunterTurn: the Hunter, dead or not, enters a seat number
HunterShoot ==
  /\ gs.phase = "NIGHT" /\ gs.nightStep = "HUNTER_ACTION"
  /\ \E i \in DOMAIN gs.players : gs.players[i].role = "HUNTER"
  /\ \E t \in Targets(gs) : Apply(Out(handleHunterShoot(gs, t), << >>), timer)

\* renderGame, isVoting: a living seat votes
Vote ==
  /\ gs.phase = "VOTING"
  /\ \E v \in Seats(gs), t \in Targets(gs) :
       /\ PlayerAt(gs, v).isAlive
       /\ Cardinality({ u \in Seats(gs) : u < v /\ PlayerAt(gs, u).isAlive }) < MaxVoters
       /\ Apply(Out(handleClientAction(gs, "VOTE", "", t, v), << >>), timer)

\* the countdown timeout fires
Tick ==
  /\ timer.armed
  /\ Apply(timerCallback(timer.snap), NoTimer)

\* the host's "end this step now" button
HostEndStep ==
  /\ isActionPhase(gs)
  /\ Apply(handleTimerExpire(gs), timer)

StartDiscussion ==
  /\ gs.phase = "DAY_TRANSITION"
  /\ gs.round <= MaxDays
  /\ Apply(startDiscussion(gs), timer)

StartVoting ==
  /\ gs.phase = "DAY_DISCUSSION"
  /\ Apply(Out(startVoting(gs), << >>), timer)

SubmitVotes ==
  /\ gs.phase = "VOTING"
  /\ Len(gs.storyLog) < MaxLog
  /\ Apply(submitVotes(gs), timer)

\* a pending timeout fires, or an awaited narrative call returns
RunCallback ==
  \E k \in DOMAIN pending :
    /\ runCallback(pending[k]).round <= MaxRound
    /\ gs' = runCallback(pending[k])
    /\ WireRoom(net, 1)
    /\ timer' = TimerEffect(gs, runCallback(pending[k]), timer)
    /\ pending' = RemoveAt(pending, k)
    /\ net' = broadcastState(net, runCallback(pending[k]))


\* the role counts of the games of the main specification: every special
\* role with one Werewolf, and two Werewolves with Villagers
GameConfigs ==
  { c \in ValidConfigs(NumSeats) :
      \/ c.roleCounts = [WEREWOLF |-> 1, VILLAGER |-> NumSeats - 4, SEER |-> 1,
                         HUNTER |-> 1, WITCH |-> 1]
      \/ c.roleCounts = [WEREWOLF |-> 2, VILLAGER |-> NumSeats - 2, SEER |-> 0,
                         HUNTER |-> 0, WITCH |-> 0] }

Init ==
  /\ gs \in { createRoom(c) : c \in GameConfigs }
  /\ timer = NoTimer
  /\ pending = << >>
  /\ net = NoNet

Next ==
  \/ Join(gs.config.totalPlayers)
  \/ StartGame(MaxSwaps)
  \/ StartNight
  \/ WolfSelect
  \/ SeerCheck
  \/ WitchSave
  \/ WitchPoison
  \/ HunterShoot
  \/ Vote
  \/ Tick
  \/ HostEndStep
  \/ StartDiscussion
  \/ StartVoting
  \/ SubmitVotes
  \/ RunCallback

Spec == Init /\ [][Next]_vars

(* ---------------- night actions delivered out of turn ------------------ *)
\* an ACTION message of a seated player reaches the host whatever the
\* host's state is by then (the sender's view trails the host's)
\* seats a message delivered out of turn may name as its target
StrayTargets == 2

ReceiveNightAction ==
  /\ gs.phase \in {"NIGHT", "DAY_TRANSITION"}
  /\ \E type \in NightActionTypes, from \in Seats(gs) :
     \E t \in { x \in Seats(gs) : x < StrayTargets } :
       Apply(Out(handleClientAction(gs, "NIGHT_ACTION", type, t, from), << >>), timer)

\* the first night, steps ended by the host's button before the first tick
NextStray ==
  \/ Join(gs.config.totalPlayers)
  \/ StartGame(0)
  \/ StartNight
  \/ ReceiveNightAction
  \/ HostEndStep
  \/ RunCallback

SpecStray == Init /\ [][NextStray]_vars

(* ------------- a WolfKill still on its way when time is up ------------- *)
\* a Werewolf's WOLF_KILL, sent in the last moment of the Werewolves' step,
\* reaches the host in the step that follows
LateWolfKill ==
  /\ gs.phase = "NIGHT" /\ gs.nightStep # "WEREWOLF_ACTION"
  /\ gs.nightStep = NextAfterWolf(gs.config)
  /\ \E from \in Seats(gs) :
       /\ PlayerAt(gs, from).isAlive /\ PlayerAt(gs, from).role = "WEREWOLF"
       /\ \E t \in { x \in Seats(gs) : x < StrayTargets } :
            Apply(Out(handleClientAction(gs, "NIGHT_ACTION", "WOLF_KILL", t, from),
                      << >>), timer)

\* the host's "end this step now" button, in the steps after the Werewolves'
HostEndLaterStep ==
  /\ gs.nightStep # "WEREWOLF_ACTION"
  /\ HostEndStep

\* the first night when nobody acts in turn: the Werewolves' step always
\* ends by its countdown, with no target recorded
NextLate ==
  \/ Join(gs.config.totalPlayers)
  \/ StartGame(0)
  \/ StartNight
  \/ Tick
  \/ LateWolfKill
  \/ HostEndLaterStep
  \/ RunCallback

SpecLate == Init /\ [][NextLate]_vars

(* ------------------------ role assignment alone ------------------------ *)
\* seats of the tables of SpecAssign
AssignSeats == 6
\* JOIN messages the host receives after the lobby is full
MaxExtraJoins == 1

InitAssign ==
  /\ gs \in { createRoom(c) : c \in ValidConfigs(AssignSeats) }
  /\ timer = NoTimer
  /\ pending = << >>
  /\ net = NoNet

NextAssign ==
  \/ Join(gs.config.totalPlayers + MaxExtraJoins)
  \/ StartGame(AssignSeats + MaxExtraJoins)

SpecAssign == InitAssign /\ [][NextAssign]_vars

(* ------------------------- vote resolution alone ----------------------- *)
\* seats of the table of SpecTally
TallySeats == 6

TallyRoles == <<"WEREWOLF", "VILLAGER", "SEER", "HUNTER", "WITCH", "VILLAGER",
                "WEREWOLF", "VILLAGER", "VILLAGER", "WEREWOLF">>

\* a Voting phase of the first day after a night without deaths, with any
\* vote map of the living seats
VotingState(votes) ==
  [createInitialState EXCEPT
     !.mode = TallySeats,
     !.config = [totalPlayers |-> TallySeats,
                 roleCounts |-> [r \in Role |->
                    Cardinality({ i \in 1 .. TallySeats : TallyRoles[i] = r })]],
     !.phase = "VOTING",
     !.round = 1,
     !.players = [i \in 1 .. TallySeats |->
                    [NewPlayer(i - 1) EXCEPT !.role = TallyRoles[i]]],
     !.currentVotes = votes,
     !.storyLog = <<"start", "night">>,
     !.currentStory = "please vote"]

VoteMaps(n) ==
  UNION { [voters -> 0 .. (n - 1)] : voters \in SUBSET (0 .. (n - 1)) }

InitTally ==
  /\ gs \in { VotingState(votes) : votes \in VoteMaps(TallySeats) }
  /\ timer = NoTimer
  /\ pending = << >>
  /\ net = NoNet

NextTally ==
  \/ SubmitVotes
  \/ RunCallback

SpecTally == InitTally /\ [][NextTally]_vars

(* ------------- votes and result publications during Voting ------------ *)
\* the host publishes the result more than once while the phase is still
\* Voting, and Vote messages arrive whatever the phase is
MaxPublish == 2

\* the delay of the setTimeout a publication starts, in milliseconds
\* (lines 2556, 2575-2577, 2579-2584)
Delay(kind) ==
  CASE kind = "TieStartNight" -> 4000
    [] kind = "HunterExile" -> 3000
    [] kind = "VictoryCheck" -> 8000
    [] OTHER -> 0

\* handleNetworkMessage, ACTION branch with action VOTE: the sender and the
\* target are whatever the message carries
ReceiveVote ==
  \E from \in Seats(gs), t \in Seats(gs) :
    /\ from < StrayTargets /\ t < StrayTargets
    /\ Apply(Out(handleClientAction(gs, "VOTE", "", t, from), << >>), timer)

\* the "publish the result" button, shown to the host while phase is Voting
Publish ==
  /\ gs.phase = "VOTING"
  /\ ApplyWithin(submitVotes(gs), timer, MaxPublish)

\* a pending timeout fires: a timeout started later fires first only when
\* its delay is shorter
RunTimeout ==
  \E k \in DOMAIN pending :
    /\ \A j \in 1 .. (k - 1) : Delay(pending[k].kind) < Delay(pending[j].kind)
    /\ gs' = runCallback(pending[k])
    /\ WireRoom(net, 1)
    /\ timer' = TimerEffect(gs, runCallback(pending[k]), timer)
    /\ pending' = RemoveAt(pending, k)
    /\ net' = broadcastState(net, runCallback(pending[k]))

InitRevote ==
  /\ gs = VotingState(<< >>)
  /\ timer = NoTimer
  /\ pending = << >>
  /\ net = NoNet

NextRevote ==
  \/ ReceiveVote
  \/ Publish
  \/ RunTimeout

SpecRevote == InitRevote /\ [][NextRevote]_vars

(* ------------------------------- chat ---------------------------------- *)
\* chat messages a participant sends while its view holds fewer than this
MaxChat == 1

\* a ChatMessage: the sender's seat and whether senderName carries the
\* last-words mark
ChatMessage(senderId, isLastWords) ==
  [senderId |-> senderId, lastWords |-> isLastWords]

\* handleChat, lines 2122-2138
handleChat(g, msg, channel) ==
  LET spends == /\ msg.senderId \in Seats(g)
                /\ ~PlayerAt(g, msg.senderId).isAlive
                /\ PlayerAt(g, msg.senderId).hasLastWords
                /\ channel = "public"
      players == [i \in 1 .. Len(g.players) |->
                    IF spends /\ g.players[i].id = msg.senderId
                      THEN [g.players[i] EXCEPT !.hasLastWords = FALSE]
                      ELSE g.players[i]]
  IN IF channel = "wolf"
       THEN [g EXCEPT !.players = players,
                      !.wolfChatHistory = Append(g.wolfChatHistory, msg)]
       ELSE [g EXCEPT !.players = players,
                      !.publicChatHistory = Append(g.publicChatHistory, msg)]

\* consumeLastWords, lines 2115-2120
consumeLastWords(g, playerId) ==
  [g EXCEPT !.players =
     [i \in 1 .. Len(g.players) |->
        IF g.players[i].id = playerId
          THEN [g.players[i] EXCEPT !.hasLastWords = FALSE]
          ELSE g.players[i]]]

\* renderGame, renderChat: the channel is shown and canSpeak holds
canSpeak(g, me, channel) ==
  /\ me \in Seats(g)
  /\ g.phase \in {"NIGHT", "DAY_TRANSITION", "DAY_DISCUSSION", "VOTING"}
  /\ IF channel = "wolf"
       THEN g.phase = "NIGHT" /\ PlayerAt(g, me).role = "WEREWOLF"
       ELSE g.phase # "NIGHT" /\ (PlayerAt(g, me).isAlive \/ PlayerAt(g, me).hasLastWords)
  /\ Len(g.publicChatHistory) + Len(g.wolfChatHistory) < MaxChat

\* sendChatMessage, lines 2081-2089: the message is a last-words message
isLastWords(g, me, channel) ==
  ~PlayerAt(g, me).isAlive /\ channel = "public" /\ PlayerAt(g, me).hasLastWords

\* sendChatMessage on the host: the states it writes and broadcasts, in order
sendChatMessage(g, me, channel) ==
  LET msg == ChatMessage(me, isLastWords(g, me, channel))
  IN IF isLastWords(g, me, channel)
       THEN <<handleChat(g, msg, channel), consumeLastWords(g, me)>>
       ELSE <<handleChat(g, msg, channel)>>

Channels == {"public", "wolf"}

(* ------------------------ host and clients ----------------------------- *)
JoinMsg(c) ==
  [type |-> "JOIN", conn |-> c, action |-> "", ntype |-> "", targetId |-> Null,
   from |-> Null, channel |-> "", lastWords |-> FALSE]
ActionMsg(c, action, ntype, targetId, from) ==
  [type |-> "ACTION", conn |-> c, action |-> action, ntype |-> ntype,
   targetId |-> targetId, from |-> from, channel |-> "", lastWords |-> FALSE]
ChatMsg(c, from, lastWords, channel) ==
  [type |-> "CHAT", conn |-> c, action |-> "", ntype |-> "", targetId |-> Null,
   from |-> from, channel |-> channel, lastWords |-> lastWords]

\* a handler that takes every message as the host does
handleNetworkMessage_NoHostCheck(isHost, g, msg) ==
  CASE msg.type = "JOIN" -> handleJoin(g)
    [] msg.type \in {"WELCOME", "STATE_UPDATE"} -> msg.gameState
    [] msg.type = "ACTION" ->
         handleClientAction(g, msg.action, msg.ntype, msg.targetId, msg.from)
    [] msg.type = "CHAT" ->
         handleChat(g, ChatMessage(msg.from, msg.lastWords), msg.channel)
    [] OTHER -> g

\* handleNetworkMessage, lines 2004-2053: the GameState the receiver holds
\* after the message
handleNetworkMessage(isHost, g, msg) ==
  CASE msg.type = "JOIN" -> IF ~isHost THEN g ELSE handleJoin(g)
    [] msg.type \in {"WELCOME", "STATE_UPDATE"} -> msg.gameState
    [] msg.type = "ACTION" ->
         IF ~isHost THEN g
         ELSE handleClientAction(g, msg.action, msg.ntype, msg.targetId, msg.from)
    [] msg.type = "CHAT" ->
         IF isHost THEN handleChat(g, ChatMessage(msg.from, msg.lastWords), msg.channel)
         ELSE g
    [] OTHER -> g

\* the host handles msg in a render whose gameState is g: the state it
\* writes and what it sends (JOIN: a WELCOME on the sender's connection,
\* then the broadcast)
Handled(g, n, msg) ==
  LET newState == handleNetworkMessage(TRUE, g, msg)
  IN [state |-> newState,
      net |-> IF msg.type = "JOIN"
                THEN broadcastState(
                       send(n, msg.conn, Welcome(Len(g.players), newState)), newState)
                ELSE broadcastState(n, newState)]


\* the next message of a client is handled by the host
HostReceive ==
  /\ net.on /\ net.up # << >>
  /\ WireRoom(net, 1)
  /\ LET r == Handled(gs, net, Head(net.up))
     IN /\ gs' = r.state
        /\ timer' = TimerEffect(gs, r.state, timer)
        /\ net' = [r.net EXCEPT !.up = Tail(net.up)]
  /\ UNCHANGED pending

\* two messages are handled back to back, before the render and the
\* effect of lines 2055-2057 that follow the first: both handlers are those
\* of the same render and read the same gameState
HostReceivePair ==
  /\ net.on /\ Len(net.up) >= 2
  /\ WireRoom(net, 1)
  /\ LET r1 == Handled(gs, net, net.up[1])
         r2 == Handled(gs, r1.net, net.up[2])
     IN /\ gs' = r2.state
        /\ timer' = TimerEffect(gs, r2.state, timer)
        /\ net' = [r2.net EXCEPT !.up = Tail(Tail(net.up))]
  /\ UNCHANGED pending

\* joinRoom: the connection opens on both sides and the client sends JOIN
Connect ==
  \E c \in Conns :
    /\ net.on /\ c \notin net.conns
    /\ Len(net.up) < MaxUp
    /\ net' = [net EXCEPT !.conns = @ \cup {c}, !.up = Append(@, JoinMsg(c))]
    /\ UNCHANGED <<gs, timer, pending>>

\* a client handles the next message of the host
Deliver ==
  \E c \in Conns :
    /\ net.on /\ net.wire[c] # << >>
    /\ net' = [net EXCEPT
                 !.wire[c] = Tail(@),
                 !.mirror[c] = handleNetworkMessage(FALSE, @, Head(net.wire[c])),
                 !.myId[c] = IF Head(net.wire[c]).type = "WELCOME"
                             THEN Head(net.wire[c]).playerId ELSE @]
    /\ UNCHANGED <<gs, timer, pending>>

\* a client votes: sendAction('VOTE') on a non-host
ClientVote ==
  \E c \in Conns, t \in Seats(gs) :
    /\ net.on /\ net.myId[c] \in Seats(net.mirror[c])
    /\ net.mirror[c].phase = "VOTING"
    /\ PlayerAt(net.mirror[c], net.myId[c]).isAlive
    /\ t < StrayTargets
    /\ Len(net.up) < MaxUp
    /\ net' = [net EXCEPT !.up = Append(@, ActionMsg(c, "VOTE", "", t, net.myId[c]))]
    /\ UNCHANGED <<gs, timer, pending>>

\* a CHAT message reaches the host: its sender's view, which trails the
\* host's, let it speak
ReceiveChat ==
  \E from \in Seats(gs), channel \in Channels, lastWords \in BOOLEAN :
    /\ 0 < from /\ from < StrayTargets
    /\ Len(gs.publicChatHistory) + Len(gs.wolfChatHistory) < MaxChat
    /\ channel = "wolf" => ~lastWords
    /\ Apply(Out(handleNetworkMessage(TRUE, gs,
                   ChatMsg(Null, from, lastWords, channel)), << >>), timer)

RECURSIVE BroadcastAll(_, _)
BroadcastAll(n, states) ==
  IF states = << >> THEN n
  ELSE BroadcastAll(broadcastState(n, Head(states)), Tail(states))

\* the host (seat 0) sends a chat message
HostChat ==
  \E channel \in Channels :
    /\ canSpeak(gs, 0, channel)
    /\ LET writes == sendChatMessage(gs, 0, channel)
       IN /\ WireRoom(net, 1)
          /\ gs' = writes[Len(writes)]
          /\ timer' = TimerEffect(gs, writes[Len(writes)], timer)
          /\ net' = BroadcastAll(net, writes)
    /\ UNCHANGED pending

RECURSIVE Joined(_, _)
\* the room after n JOIN messages
Joined(g, n) == IF n = 0 THEN g ELSE handleJoin(Joined(g, n - 1))

\* the seat of client c when the followed clients are the last to join
SeatOf(c) == TallySeats - NetClients + c - 1

\* a lobby that waits for the followed clients, and a Voting phase they
\* are seated in
InitNet ==
  /\ timer = NoTimer
  /\ pending = << >>
  /\ \/ /\ gs = Joined(createRoom(VotingState(<< >>).config),
                       TallySeats - NetClients - 1)
        /\ net = [on |-> TRUE, conns |-> {}, up |-> << >>,
                  wire |-> [c \in Conns |-> << >>],
                  mirror |-> [c \in Conns |-> createInitialState],
                  myId |-> [c \in Conns |-> Null]]
     \/ /\ gs = VotingState(<< >>)
        /\ net = [on |-> TRUE, conns |-> Conns, up |-> << >>,
                  wire |-> [c \in Conns |-> << >>],
                  mirror |-> [c \in Conns |-> VotingState(<< >>)],
                  myId |-> [c \in Conns |-> SeatOf(c)]]

NextNet ==
  \/ Connect
  \/ Deliver
  \/ ClientVote
  \/ HostReceive
  \/ HostReceivePair
  \/ StartGame(0)
  \/ StartNight
  \/ SubmitVotes
  \/ RunTimeout

SpecNet == InitNet /\ [][NextNet]_vars

(* ------------------------- chat during a vote -------------------------- *)
NextChat ==
  \/ ReceiveVote
  \/ ReceiveChat
  \/ HostChat
  \/ SubmitVotes
  \/ RunTimeout

SpecChat == InitRevote /\ [][NextChat]_vars

(* ============================== claims ================================= *)
RoleSteps == {"WEREWOLF_ACTION", "SEER_ACTION", "WITCH_ACTION"}

\* the step in which the night is resolved: a confirm, by the button or by
\* the countdown and not a pending callback, ends a role step of the night
\* and no role step follows
ResolveStep ==
  /\ gs.phase = "NIGHT" /\ gs.nightStep \in RoleSteps
  /\ gs'.nightStep \in {"NONE", "HUNTER_ACTION"}
  /\ Len(pending') >= Len(pending)

\* the step in which the countdown of the Werewolves' step runs out
WolfExpiry ==
  /\ gs.phase = "NIGHT" /\ gs.nightStep = "WEREWOLF_ACTION"
  /\ timer.armed /\ timer.snap.timeLeft = 1
  /\ gs' = timerCallback(timer.snap).state

\* C1, as stated: a seat that is dead is dead after every step.
C1_DeathIsPermanent ==
  [][\A i \in DOMAIN gs.players :
       (~gs.players[i].isAlive /\ i \in DOMAIN gs'.players)
         => ~gs'.players[i].isAlive]_vars

\* C2, as stated: when the countdown of the Werewolves' step runs out, the
\* confirm runs with the target the Werewolves recorded: the recorded seat
\* is the wolves' target of the state the night goes on with.
C2_ExpiryKeepsWolfTarget ==
  [][WolfExpiry => gs'.wolvesTargetId = gs.wolvesTargetId]_vars

\* C3, as stated: when the night is resolved with the antidote used and a
\* wolves' target set, that target is not in the death set and its life is
\* what it was, whatever the poison target.
C3_SavedTargetSurvives ==
  [][(ResolveStep /\ gs'.witchAction.save /\ gs'.wolvesTargetId # Null)
       => /\ ~Includes(gs'.lastNightDeadIds, gs'.wolvesTargetId)
          /\ PlayerAt(gs', gs'.wolvesTargetId).isAlive
               = PlayerAt(gs, gs'.wolvesTargetId).isAlive]_vars

\* C3, amended: when the night is resolved with the antidote used and a
\* wolves' target set, that target is not in the death set and its life is
\* what it was, unless the poison target is that same seat.
C3_SavedTargetSurvivesUnlessPoisoned ==
  [][(/\ ResolveStep /\ gs'.witchAction.save /\ gs'.wolvesTargetId # Null
      /\ gs'.witchAction.poisonTargetId # gs'.wolvesTargetId)
       => /\ ~Includes(gs'.lastNightDeadIds, gs'.wolvesTargetId)
          /\ PlayerAt(gs', gs'.wolvesTargetId).isAlive
               = PlayerAt(gs, gs'.wolvesTargetId).isAlive]_vars

\* a resolved first night in which the antidote saved the wolves' target
\* while the poison killed another seat
C3_Witness ==
  /\ gs.phase = "DAY_TRANSITION" /\ gs.round = 1
  /\ gs.witchAction.save /\ gs.wolvesTargetId # Null
  /\ gs.witchAction.poisonTargetId \notin {Null, gs.wolvesTargetId}
  /\ PlayerAt(gs, gs.wolvesTargetId).isAlive
  /\ gs.lastNightDeadIds = <<gs.witchAction.poisonTargetId>>

\* the seats of g that are not alive
DeadSeats(g) == { i \in Seats(g) : ~PlayerAt(g, i).isAlive }

\* C4: vote resolution, for every vote map over the seats of a table where
\* everybody lives: the seats exiled are exactly the targets that hold the
\* strict maximum of the vote counts, which is one seat or, on a tie or
\* without votes, none.
C4_VoteResolution ==
  pending # << >> =>
    LET votes == gs.currentVotes
        count(t) == Cardinality({ v \in DOMAIN votes : votes[v] = t })
        top == { t \in Seats(gs) :
                   count(t) > 0 /\ \A u \in Seats(gs) \ {t} : count(u) < count(t) }
    IN DeadSeats(gs) = top

\* the votes {0->2, 1->2, 3->4} have been resolved and seat 2 is exiled
C4_Witness ==
  /\ pending # << >>
  /\ gs.currentVotes = (0 :> 2 @@ 1 :> 2 @@ 3 :> 4)
  /\ DeadSeats(gs) = {2}

\* C5: when the victory evaluation after an exile runs on a roster with W
\* living Werewolves and G living others, the game is over for the
\* Villagers iff W = 0, over for the Werewolves iff W > 0 and W >= G, and
\* otherwise nobody has won and a new night begins.
C5_VictoryEvaluation ==
  [][\A k \in DOMAIN pending :
       (pending[k].kind = "VictoryCheck" /\ pending' = RemoveAt(pending, k)) =>
         LET ps == pending[k].snap.players
             W == Cardinality({ i \in DOMAIN ps :
                                  ps[i].isAlive /\ ps[i].role = "WEREWOLF" })
             G == Cardinality({ i \in DOMAIN ps :
                                  ps[i].isAlive /\ ps[i].role # "WEREWOLF" })
         IN /\ (gs'.phase = "GAME_OVER" /\ gs'.winner = "VILLAGERS") <=> (W = 0)
            /\ (gs'.phase = "GAME_OVER" /\ gs'.winner = "WEREWOLVES")
                 <=> (W > 0 /\ W >= G)
            /\ (W > 0 /\ W < G) =>
                 /\ gs'.winner = "null"
                 /\ gs'.phase = "NIGHT" /\ gs'.nightStep = "WEREWOLF_ACTION"]_vars

\* the Werewolves have won after an exile left them as many as the others
C5_Witness ==
  /\ gs.phase = "GAME_OVER" /\ gs.winner = "WEREWOLVES"
  /\ Cardinality(Wolves(gs.players)) > 0
  /\ Cardinality(Wolves(gs.players)) >= Cardinality(Good(gs.players))
  /\ Cardinality(Good(gs.players)) > 0

\* C6, as stated: once the roles are assigned, the number of seats holding
\* each role is the role's configured count.
C6_RolesMatchConfig ==
  gs.phase = "ROLE_REVEAL" =>
    \A r \in Role :
      Cardinality({ i \in DOMAIN gs.players : gs.players[i].role = r })
        = gs.config.roleCounts[r]

\* C7: when the night is resolved and the poison target is a Hunter, the
\* host goes to DayTransition and not to the Hunter's step, also when that
\* Hunter is the wolves' target.
C7_PoisonedHunterNoShot ==
  [][(/\ ResolveStep
      /\ gs'.witchAction.poisonTargetId # Null
      /\ PlayerAt(gs', gs'.witchAction.poisonTargetId).role = "HUNTER")
       => (gs'.phase = "DAY_TRANSITION" /\ gs'.nightStep = "NONE")]_vars

\* a first night resolved with the Hunter both poisoned and attacked
C7_Witness ==
  /\ gs.phase = "DAY_TRANSITION" /\ gs.round = 1
  /\ gs.witchAction.poisonTargetId # Null
  /\ PlayerAt(gs, gs.witchAction.poisonTargetId).role = "HUNTER"
  /\ gs.wolvesTargetId = gs.witchAction.poisonTargetId
  /\ ~gs.witchAction.save
  /\ ~PlayerAt(gs, gs.witchAction.poisonTargetId).isAlive

\* C8: the death set night resolution computes names no seat twice; a seat
\* that is the wolves' unsaved target and the poison target is in it once.
C8_DeathSetNoDuplicates ==
  [][ResolveStep =>
       LET dead == gs'.lastNightDeadIds
           w == gs'.wolvesTargetId
       IN /\ \A i, j \in DOMAIN dead : dead[i] = dead[j] => i = j
          /\ (w # Null /\ ~gs'.witchAction.save
                /\ gs'.witchAction.poisonTargetId = w)
               => Cardinality({ i \in DOMAIN dead : dead[i] = w }) = 1]_vars

\* a first night resolved with one seat, not the Hunter, both attacked
\* unsaved and poisoned
C8_Witness ==
  /\ gs.phase = "DAY_TRANSITION" /\ gs.round = 1
  /\ gs.wolvesTargetId # Null /\ ~gs.witchAction.save
  /\ gs.witchAction.poisonTargetId = gs.wolvesTargetId
  /\ PlayerAt(gs, gs.wolvesTargetId).role # "HUNTER"
  /\ gs.lastNightDeadIds = <<gs.wolvesTargetId>>

\* C9, as stated: in a night whose Werewolves' step ran out with no target
\* recorded, the death set of the resolution holds no wolves' target.
C9_NoWolfDeathAfterExpiry ==
  [][ResolveStep =>
       ~Includes(gs'.lastNightDeadIds, gs'.wolvesTargetId)]_vars

NightStepOf(type) ==
  CASE type = "WOLF_KILL" -> "WEREWOLF_ACTION"
    [] type = "SEER_CHECK" -> "SEER_ACTION"
    [] type \in {"WITCH_SAVE", "WITCH_POISON"} -> "WITCH_ACTION"
    [] type = "HUNTER_SHOOT" -> "HUNTER_ACTION"

RoleOf(type) ==
  CASE type = "WOLF_KILL" -> "WEREWOLF"
    [] type = "SEER_CHECK" -> "SEER"
    [] type \in {"WITCH_SAVE", "WITCH_POISON"} -> "WITCH"
    [] type = "HUNTER_SHOOT" -> "HUNTER"

\* the night action type of seat from is in turn in g
InTurn(g, type, from) ==
  /\ g.phase = "NIGHT" /\ g.nightStep = NightStepOf(type)
  /\ PlayerAt(g, from).role = RoleOf(type)
  /\ (PlayerAt(g, from).isAlive \/ type = "HUNTER_SHOOT")

\* C10, as stated: a night action the host receives out of turn (another
\* step, a seat without the role, a dead seat other than the Hunter) leaves
\* the host state as it was.
C10_OutOfTurnIgnored ==
  [][\A type \in NightActionTypes, from \in Seats(gs), t \in Seats(gs) :
       (/\ ~InTurn(gs, type, from)
        /\ gs' = handleClientAction(gs, "NIGHT_ACTION", type, t, from))
         => gs' = gs]_vars

\* C11 (as stated): a Vote from a voter who is not alive, or outside the
\* Voting phase, is a no-op: the host's state after handling it is the state
\* before
C11_InvalidVoteIgnored ==
  [][\A from \in Seats(gs), t \in Seats(gs) :
       (/\ ~(gs.phase = "VOTING" /\ PlayerAt(gs, from).isAlive)
        /\ gs' = handleClientAction(gs, "VOTE", "", t, from))
       => gs' = gs]_vars

\* C12 (as stated, its last part): a WitchSave or WitchPoison action that
\* reaches the host after the potion it uses is consumed leaves the host's
\* state unchanged
C12_SpentPotionIgnored ==
  [][\A from \in Seats(gs), t \in Seats(gs) :
       /\ (/\ gs.witchSaveUsed
           /\ gs' = handleClientAction(gs, "NIGHT_ACTION", "WITCH_SAVE", t, from))
          => gs' = gs
       /\ (/\ gs.witchPoisonUsed
           /\ gs' = handleClientAction(gs, "NIGHT_ACTION", "WITCH_POISON", t, from))
          => gs' = gs]_vars

StrayMsgs(g) ==
  LET ids == { x \in Seats(g) : x < StrayTargets }
  IN { JoinMsg(1) }
     \cup { ActionMsg(1, "VOTE", "", t, from) : t \in ids, from \in ids }
     \cup { ActionMsg(1, "NIGHT_ACTION", type, t, from) :
              type \in NightActionTypes, t \in ids, from \in ids }
     \cup { ChatMsg(1, from, FALSE, channel) : from \in ids, channel \in Channels }

C15_BackToBackVotesKept ==
  [][(/\ net.on /\ Len(net.up) >= 2
      /\ net'.up = Tail(Tail(net.up))
      /\ net.up[1].action = "VOTE" /\ net.up[2].action = "VOTE")
     => {net.up[1].from, net.up[2].from} \subseteq DOMAIN gs'.currentVotes]_vars

\* C16 (as stated): accepted Joins are assigned distinct seats, and every
\* seat holds the player whose id is the seat's index
C16_SeatsNeverReused ==
  /\ \A i \in DOMAIN gs.players : gs.players[i].id = i - 1
  /\ net.on =>
       \A c1 \in Conns, c2 \in Conns :
         (c1 # c2 /\ net.myId[c1] # Null /\ net.myId[c2] # Null)
         => net.myId[c1] # net.myId[c2]

\* s is a prefix of t
IsPrefix(s, t) == Len(s) <= Len(t) /\ SubSeq(t, 1, Len(s)) = s

\* C17 (as stated): after the game starts, every host step leaves the
\* previous storyLog as a prefix of the new storyLog
C17_StoryLogAppendOnly ==
  [][gs.phase \notin {"SETUP", "LOBBY"} => IsPrefix(gs.storyLog, gs'.storyLog)]_vars

\* the step is the host's own chat message on the public channel
HostSpeaks ==
  /\ canSpeak(gs, 0, "public")
  /\ gs' = sendChatMessage(gs, 0, "public")[Len(sendChatMessage(gs, 0, "public"))]

\* C18 (as stated): every host step leaves both chat histories as prefixes
\* of the new ones, and a message the host player sends, last words
\* included, is in the public history after the step
C18_ChatAppendOnly ==
  [][/\ IsPrefix(gs.publicChatHistory, gs'.publicChatHistory)
     /\ IsPrefix(gs.wolfChatHistory, gs'.wolfChatHistory)
     /\ HostSpeaks => Len(gs'.publicChatHistory) = Len(gs.publicChatHistory) + 1]_vars

\* the phase changes the specification lists
PhaseEdges ==
  { <<"LOBBY", "ROLE_REVEAL">>, <<"ROLE_REVEAL", "NIGHT">>,
    <<"NIGHT", "DAY_TRANSITION">>, <<"DAY_TRANSITION", "DAY_DISCUSSION">>,
    <<"DAY_DISCUSSION", "VOTING">>, <<"VOTING", "NIGHT">>,
    <<"VOTING", "GAME_OVER">> }

\* C19 (as stated): the host's phase changes only along the listed edges,
\* whatever the order of host triggers and delayed callbacks
C19_PhaseEdges ==
  [][gs'.phase # gs.phase => <<gs.phase, gs'.phase>> \in PhaseEdges]_vars

\* C20 (as stated): once the phase is GameOver with a declared winner, no
\* later host step changes the phase or the winner
C20_GameOverTerminal ==
  [][(gs.phase = "GAME_OVER" /\ gs.winner # "null")
     => (gs'.phase = "GAME_OVER" /\ gs'.winner = gs.winner)]_vars

\* one night and the day that follows, steps ended by the host's button;
\* an awaited narrative call eventually returns
NextStory ==
  \/ Join(gs.config.totalPlayers)
  \/ StartGame(MaxSwaps)
  \/ StartNight
  \/ WolfSelect
  \/ HunterShoot
  \/ HostEndStep
  \/ StartDiscussion
  \/ StartVoting
  \/ RunCallback

SpecStory == Init /\ [][NextStory]_vars /\ WF_vars(RunCallback)

(* ----------------------- narrative collaborator ------------------------ *)
\* what ai.models.generateContent does: it answers with a text, answers
\* with an empty text, or throws
Outcomes == {"text", "empty", "error"}

\* the result of an async function whose exception nobody caught
Rejected == "rejected"

\* a generateNightStory without its catch block
generateNightStory_NoCatch(outcome, deadIds) ==
  CASE outcome = "text" -> "generated story"
    [] outcome = "empty" -> "something terrible happened"
    [] OTHER -> Rejected

\* generateNightStory, geminiService.ts lines 6-35; deadIds are the seats of
\* deadPlayers, whose names the fallback joins
generateNightStory(outcome, deadIds) ==
  CASE outcome = "text" -> "generated story"
    [] outcome = "empty" -> "something terrible happened"
    [] OTHER -> IF Len(deadIds) > 0
                  THEN "last night " \o ToString(deadIds) \o " died"
                  ELSE "peaceful night, nobody died"

\* generateDiscussionTopic, geminiService.ts lines 37-49
generateDiscussionTopic(outcome) ==
  CASE outcome = "text" -> "generated topic"
    [] outcome = "empty" -> "day breaks, discuss"
    [] OTHER -> "discuss and find the wolves"

\* players.filter(p => deadIds.includes(p.id)): the dead in seat order
RECURSIVE SeatOrder(_, _)
SeatOrder(ps, deadIds) ==
  IF ps = << >> THEN << >>
  ELSE (IF Includes(deadIds, Head(ps).id) THEN <<Head(ps).id>> ELSE << >>)
       \o SeatOrder(Tail(ps), deadIds)

\* what the continuation of an awaited narrative call writes when the
\* collaborator's outcome is known; cur is the host's state when it runs
returnStory(cb, outcome, cur) ==
  LET story == generateNightStory(outcome,
                 SeatOrder(cb.snap.players, cb.snap.lastNightDeadIds))
      topic == generateDiscussionTopic(outcome)
  IN CASE cb.kind \in {"NightStory", "HunterForfeitStory"} ->
            IF story = Rejected THEN cur
            ELSE [cb.snap EXCEPT
                    !.currentStory = story,
                    !.storyLog = Append(cb.snap.storyLog,
                                   "night " \o ToString(cb.snap.round) \o ": " \o story),
                    !.isLoadingStory = FALSE]
       [] cb.kind = "HunterShotStory" ->
            IF story = Rejected THEN cur
            ELSE [cb.snap EXCEPT
                    !.currentStory = story,
                    !.storyLog = Append(cb.snap.storyLog, "hunter shot: " \o story),
                    !.isLoadingStory = FALSE]
       [] cb.kind = "DiscussionTopic" ->
            [cb.stale EXCEPT !.phase = "DAY_DISCUSSION",
                             !.currentStory = topic,
                             !.isLoadingStory = FALSE]
       [] OTHER -> runCallback(cb)

\* an awaited narrative call returns
NarrativeReturns ==
  \E k \in DOMAIN pending, outcome \in Outcomes :
    /\ WireRoom(net, 1)
    /\ gs' = returnStory(pending[k], outcome, gs)
    /\ timer' = TimerEffect(gs, returnStory(pending[k], outcome, gs), timer)
    /\ pending' = RemoveAt(pending, k)
    /\ net' = broadcastState(net, returnStory(pending[k], outcome, gs))

NextNarr ==
  \/ Join(gs.config.totalPlayers)
  \/ StartGame(MaxSwaps)
  \/ StartNight
  \/ WolfSelect
  \/ HunterShoot
  \/ HostEndStep
  \/ StartDiscussion
  \/ StartVoting
  \/ NarrativeReturns

SpecNarr == Init /\ [][NextNarr]_vars

StoryKinds == {"NightStory", "HunterForfeitStory", "HunterShotStory"}

\* the step is the return of the night story awaited by pending[k]
StoryReturns(k) ==
  /\ k \in DOMAIN pending
  /\ pending[k].kind \in StoryKinds
  /\ pending' = RemoveAt(pending, k)

\* C22: whatever the collaborator does, the night story awaited by night
\* resolution is a text (on error the sentence naming the dead seats, or
\* the nobody-died sentence), exactly one log entry is appended and the
\* host is in DayTransition
C22_NarrativeNeverAborts ==
  [][\A k \in DOMAIN pending :
       StoryReturns(k) =>
         /\ gs'.phase = "DAY_TRANSITION"
         /\ Len(gs'.storyLog) = Len(gs.storyLog) + 1
         /\ SubSeq(gs'.storyLog, 1, Len(gs.storyLog)) = gs.storyLog
         /\ gs'.currentStory \in
              {"generated story", "something terrible happened",
               IF Len(gs.lastNightDeadIds) = 0 THEN "peaceful night, nobody died"
               ELSE "last night "
                    \o ToString(SeatOrder(gs.players, gs.lastNightDeadIds))
                    \o " died"}
     /\ \A outcome \in Outcomes : generateDiscussionTopic(outcome) # Rejected]_vars

\* the collaborator failed after a night with a death: the fallback names
\* the dead seat
C22_Witness ==
  /\ gs.phase = "DAY_TRANSITION"
  /\ Len(gs.lastNightDeadIds) > 0
  /\ gs.currentStory = "last night " \o ToString(gs.lastNightDeadIds) \o " died"
  /\ pending = << >>

\* the step writes the state startNight builds: Night(WerewolfAction) with
\* the action targets cleared
EntersNight ==
  /\ gs'.phase = "NIGHT" /\ gs'.nightStep = "WEREWOLF_ACTION"
  /\ gs'.timeLeft = ACTION_TIMEOUT_SECONDS
  /\ gs'.wolvesTargetId = Null
  /\ ~(gs.phase = "NIGHT" /\ gs.nightStep = "WEREWOLF_ACTION" /\ gs'.round = gs.round)

\* C23 (as stated): round never decreases, increases by exactly 1 on each
\* entry into Night(WerewolfAction), and no other step changes it
C23_RoundCounter ==
  [][/\ gs'.round >= gs.round
     /\ EntersNight => gs'.round = gs.round + 1
     /\ gs'.round # gs.round => EntersNight]_vars

AliveFlags(g) == [i \in DOMAIN g.players |-> g.players[i].isAlive]

\* the step is the host's confirmation, or the countdown's expiry
ConfirmOrExpiry ==
  \/ gs' = handleTimerExpire(gs).state
  \/ /\ timer.armed /\ timer.snap.timeLeft = 1
     /\ gs' = timerCallback(timer.snap).state

\* C24: when Night(HunterAction) ends by confirmation or expiry with no
\* Hunter target recorded, the host goes to DayTransition, no player's
\* isAlive changes and lastNightDeadIds is unchanged
C24_ForfeitedShot ==
  [][(/\ gs.phase = "NIGHT" /\ gs.nightStep = "HUNTER_ACTION"
      /\ gs.hunterTargetId = Null
      /\ ConfirmOrExpiry)
     => /\ gs'.phase = "DAY_TRANSITION" /\ gs'.nightStep = "NONE"
        /\ AliveFlags(gs') = AliveFlags(gs)
        /\ gs'.lastNightDeadIds = gs.lastNightDeadIds]_vars

\* a forfeited shot: the Hunter is among the night's dead, no target was
\* recorded and the forfeit's story is awaited
C24_Witness ==
  /\ gs.phase = "DAY_TRANSITION" /\ gs.hunterTargetId = Null
  /\ Len(gs.lastNightDeadIds) > 0
  /\ \E k \in DOMAIN pending : pending[k].kind = "HunterForfeitStory"

TimedSteps == {"WEREWOLF_ACTION", "SEER_ACTION", "WITCH_ACTION", "HUNTER_ACTION"}

\* C25: in every host state nightStep is one of the four action steps only
\* while phase is Night, and None in every other phase
C25_PhaseStepPair ==
  /\ gs.nightStep \in TimedSteps \cup {"NONE"}
  /\ gs.nightStep \in TimedSteps => gs.phase = "NIGHT"
  /\ gs.phase # "NIGHT" => gs.nightStep = "NONE"

\* Night(HunterAction) entered after a Voting exile
C25_Witness ==
  /\ gs.phase = "NIGHT" /\ gs.nightStep = "HUNTER_ACTION"
  /\ gs.currentStory = "hunter exiled, shoot"

IsTimed(g) == g.phase = "NIGHT" /\ g.nightStep \in TimedSteps

\* C26: a step that enters a timed step sets timeLeft to 20; in every state
\* that is not in a timed step timeLeft is 0; timeLeft stays within 0..20
C26_Countdown ==
  [][/\ (IsTimed(gs') /\ (~IsTimed(gs) \/ gs'.nightStep # gs.nightStep))
          => gs'.timeLeft = ACTION_TIMEOUT_SECONDS
     /\ ~IsTimed(gs') => gs'.timeLeft = 0
     /\ gs'.timeLeft \in 0 .. ACTION_TIMEOUT_SECONDS]_vars

\* the Hunter's step entered after a Voting exile, with the countdown at 20,
\* and the Seer's step with the countdown run down to 1
C26_Witness ==
  \/ /\ gs.phase = "NIGHT" /\ gs.nightStep = "HUNTER_ACTION"
     /\ gs.currentStory = "hunter exiled, shoot"
     /\ gs.timeLeft = ACTION_TIMEOUT_SECONDS /\ timer.armed
  \/ /\ gs.phase = "NIGHT" /\ gs.nightStep = "SEER_ACTION" /\ gs.timeLeft = 1

\* the step is a countdown tick that does not reach zero
TickStep ==
  /\ timer.armed /\ timer.snap.timeLeft > 1
  /\ gs' = timerCallback(timer.snap).state
  /\ timer' # timer

\* C27 (as stated): a tick that does not reach zero decreases timeLeft by 1
\* and leaves every other field of the host's state as it was
C27_TickChangesOnlyTime ==
  [][TickStep => gs' = [gs EXCEPT !.timeLeft = gs.timeLeft - 1]]_vars

\* the night that follows a Voting phase whose result was published more
\* than once: the host's countdown runs and the host may end a step early
NextRenight ==
  \/ ReceiveVote
  \/ Publish
  \/ RunTimeout
  \/ Tick
  \/ HostEndStep

SpecRenight == InitRevote /\ [][NextRenight]_vars

\* the order of the steps of a night
StepRank(step) ==
  CASE step = "WEREWOLF_ACTION" -> 1
    [] step = "SEER_ACTION" -> 2
    [] step = "WITCH_ACTION" -> 3
    [] step = "HUNTER_ACTION" -> 4
    [] OTHER -> 5

\* the step a confirm may leave the host in when the night has no role
\* step left: the resolution that follows it at once either ends the night
\* (DayTransition, None) or hands over to the Hunter
AfterLastStep ==
  \/ gs'.phase = "DAY_TRANSITION" /\ gs'.nightStep = "NONE"
  \/ gs'.phase = "NIGHT" /\ gs'.nightStep = "HUNTER_ACTION"

\* the step the claim names after a role step, from the role counts
ClaimedNext(step, roleCounts) ==
  CASE step = "WEREWOLF_ACTION" ->
         IF roleCounts["SEER"] # 0 THEN "SEER_ACTION"
         ELSE IF roleCounts["WITCH"] # 0 THEN "WITCH_ACTION" ELSE "NONE"
    [] step = "SEER_ACTION" ->
         IF roleCounts["WITCH"] # 0 THEN "WITCH_ACTION" ELSE "NONE"
    [] OTHER -> "NONE"

\* C28 (as stated): a confirm (button or countdown expiry) of a role step leads to the
\* next step whose role the config holds, else to None (and the resolution);
\* within one night the step never moves backward, so none is entered twice
C28_StepsForward ==
  [][/\ (gs.phase = "NIGHT" /\ gs.nightStep \in RoleSteps /\ ConfirmOrExpiry)
          => LET nxt == ClaimedNext(gs.nightStep, gs.config.roleCounts)
             IN IF nxt = "NONE" THEN AfterLastStep
                ELSE gs'.phase = "NIGHT" /\ gs'.nightStep = nxt
     /\ (gs.phase = "NIGHT" /\ gs'.phase = "NIGHT" /\ gs'.round = gs.round)
          => StepRank(gs'.nightStep) >= StepRank(gs.nightStep)]_vars

\* the confirm (button or countdown expiry) of the last role step the
\* config holds: the step of the night's resolution
LastConfirm ==
  /\ gs.phase = "NIGHT" /\ gs.nightStep \in RoleSteps
  /\ ClaimedNext(gs.nightStep, gs.config.roleCounts) = "NONE"
  /\ ConfirmOrExpiry

\* C29 (as stated): during the role steps of a night no seat's isAlive
\* changes except by the confirm of the last role step of the config, and
\* that confirm resolves the night: the seats dead afterwards are those
\* dead before and those of the death set it records
C29_DeathsOnlyByResolution ==
  [][/\ (/\ gs.phase = "NIGHT" /\ gs.nightStep \in RoleSteps
         /\ AliveFlags(gs') # AliveFlags(gs)) => LastConfirm
     /\ LastConfirm =>
          /\ AfterLastStep
          /\ \A i \in DOMAIN gs.players :
               gs'.players[i].isAlive =
                 (gs.players[i].isAlive
                    /\ ~Includes(gs'.lastNightDeadIds, gs.players[i].id))]_vars

\* the night's resolution hands over to the Hunter
ResolutionToHunter ==
  /\ gs.phase = "NIGHT" /\ gs.nightStep \in RoleSteps
  /\ ConfirmOrExpiry
  /\ gs'.phase = "NIGHT" /\ gs'.nightStep = "HUNTER_ACTION"

\* C30 (as stated): when the night's resolution enters Night(HunterAction),
\* a Hunter who was alive just before the resolution is in the night's
\* death set and is not the poison target
C30_OnlyLivingHunterShoots ==
  [][ResolutionToHunter =>
       \E i \in DOMAIN gs.players :
         /\ gs.players[i].role = "HUNTER"
         /\ gs.players[i].isAlive
         /\ Includes(gs'.lastNightDeadIds, gs.players[i].id)
         /\ gs'.witchAction.poisonTargetId # gs.players[i].id]_vars

\* a Vote for the Hunter's seat reaches the host
ReceiveHunterVote ==
  /\ FirstHunter(gs.players) # Null
  /\ \E from \in Seats(gs) :
       /\ from < StrayTargets
       /\ Apply(Out(handleClientAction(gs, "VOTE", "", FirstHunter(gs.players), from),
                    << >>), timer)

\* result publications during Voting when votes may name the Hunter
NextRehunt ==
  \/ ReceiveVote
  \/ ReceiveHunterVote
  \/ Publish
  \/ RunTimeout

SpecRehunt == InitRevote /\ [][NextRehunt]_vars

\* the step in which the host publishes the result of the vote
PublishStep ==
  /\ gs.phase = "VOTING"
  /\ gs' = submitVotes(gs).state
  /\ pending' = pending \o submitVotes(gs).cbs

\* the host leaves Voting while the timeout of an exile is pending
LeavesVotingAfter(kind) ==
  /\ gs.phase = "VOTING" /\ gs'.phase # "VOTING"
  /\ \E k \in DOMAIN pending : pending[k].kind = kind

\* C31 (as stated): the publication that exiles seat e leaves e dead with
\* the last-words flag; after a Hunter's exile the host next enters
\* Night(HunterAction) with no target and no winner; after another seat's
\* exile it next enters GameOver with the winner of the victory rule, or
\* Night(WerewolfAction) when the rule names no winner
C31_ExileOutcome ==
  [][/\ (PublishStep /\ Exiled(gs.currentVotes) # Null)
          => /\ ~PlayerAt(gs', Exiled(gs.currentVotes)).isAlive
             /\ PlayerAt(gs', Exiled(gs.currentVotes)).hasLastWords
     /\ LeavesVotingAfter("HunterExile")
          => /\ gs'.phase = "NIGHT" /\ gs'.nightStep = "HUNTER_ACTION"
             /\ gs'.hunterTargetId = Null
             /\ gs'.winner = "null"
     /\ \A k \in DOMAIN pending :
          (/\ pending[k].kind = "VictoryCheck"
           /\ gs' = runCallback(pending[k])
           /\ pending' = RemoveAt(pending, k))
            => IF Winner(pending[k].snap.players) # "null"
                 THEN /\ gs'.phase = "GAME_OVER"
                      /\ gs'.winner = Winner(gs'.players)
                 ELSE /\ gs'.phase = "NIGHT"
                      /\ gs'.nightStep = "WEREWOLF_ACTION"]_vars

\* the timeout of a publication of the given kind fires
TimeoutFires(kind) ==
  \E k \in DOMAIN pending :
    /\ pending[k].kind = kind
    /\ gs' = runCallback(pending[k])
    /\ pending' = RemoveAt(pending, k)

\* C32 (as stated): a publication with a tie or with no votes changes no
\* seat's isAlive or hasLastWords and appends the stalemate entry to the
\* log; when its timeout fires the host is in Night(WerewolfAction), and
\* when it enters that step by the timeout the round is one higher than
\* it was
C32_TieOutcome ==
  [][/\ (PublishStep /\ Exiled(gs.currentVotes) = Null)
          => /\ gs'.players = gs.players
             /\ gs'.storyLog = Append(gs.storyLog, "tie")
     /\ TimeoutFires("TieStartNight")
          => /\ gs'.phase = "NIGHT" /\ gs'.nightStep = "WEREWOLF_ACTION"
             /\ ~(gs.phase = "NIGHT" /\ gs.nightStep = "WEREWOLF_ACTION")
                  => gs'.round = gs.round + 1]_vars

\* C33: night resolution and the Hunter's confirm (shot or forfeit, button
\* or expiry) leave winner as it is and never enter GameOver; a Hunter step
\* always ends in DayTransition; winner is set and GameOver entered only
\* when the timeout of a non-Hunter's exile fires
C33_VictoryOnlyAfterExile ==
  [][/\ (gs.phase = "NIGHT" /\ ConfirmOrExpiry)
          => gs'.winner = gs.winner /\ gs'.phase # "GAME_OVER"
     /\ (gs.phase = "NIGHT" /\ gs.nightStep = "HUNTER_ACTION" /\ ConfirmOrExpiry)
          => gs'.phase = "DAY_TRANSITION"
     /\ (\/ gs'.winner # "null" /\ gs'.winner # gs.winner
         \/ gs'.phase = "GAME_OVER" /\ gs.phase # "GAME_OVER")
          => TimeoutFires("VictoryCheck")]_vars

\* the Hunter shot the last Werewolf: the victory rule names a winner, and
\* the host is in DayTransition with no winner set
C33_Witness ==
  /\ gs.phase = "DAY_TRANSITION"
  /\ gs.hunterTargetId # Null
  /\ Winner(gs.players) # "null"
  /\ gs.winner = "null"

\* C34: the night's resolution sets hasLastWords of a seat of the death set
\* when the round is 1; in a later round, and for every seat outside the
\* death set, hasLastWords stays as it was
C34_LastWordsFirstRoundOnly ==
  [][LastConfirm =>
       \A i \in DOMAIN gs.players :
         gs'.players[i].hasLastWords =
           IF Includes(gs'.lastNightDeadIds, gs.players[i].id) /\ gs.round = 1
             THEN TRUE
             ELSE gs.players[i].hasLastWords]_vars

\* the second night was resolved with a seat in its death set that holds
\* no last words
C34_Witness ==
  /\ gs.round = 2
  /\ gs.phase = "DAY_TRANSITION"
  /\ \E i \in DOMAIN gs.players :
       /\ Includes(gs.lastNightDeadIds, gs.players[i].id)
       /\ ~gs.players[i].isAlive
       /\ ~gs.players[i].hasLastWords

\* the host handles a general-channel CHAT message of seat from
HostHandlesChat(from, lastWords) ==
  /\ gs' = handleNetworkMessage(TRUE, gs, ChatMsg(Null, from, lastWords, "public"))
  /\ pending' = pending

\* C35 (as stated): a general-channel message the host accepts from a dead
\* seat that holds hasLastWords, the host's own seat included, is in the
\* public history afterwards and the seat's hasLastWords is false; a
\* general-channel message from a dead seat without the flag is not appended
C35_LastWordsOneShot ==
  [][/\ (HostSpeaks /\ isLastWords(gs, 0, "public"))
          => /\ gs'.publicChatHistory =
                  Append(gs.publicChatHistory, ChatMessage(0, TRUE))
             /\ ~PlayerAt(gs', 0).hasLastWords
     /\ \A from \in Seats(gs), lastWords \in BOOLEAN :
          (HostHandlesChat(from, lastWords) /\ ~PlayerAt(gs, from).isAlive)
            => IF PlayerAt(gs, from).hasLastWords
                 THEN /\ gs'.publicChatHistory =
                           Append(gs.publicChatHistory, ChatMessage(from, lastWords))
                      /\ ~PlayerAt(gs', from).hasLastWords
                 ELSE gs'.publicChatHistory = gs.publicChatHistory]_vars

\* C36 (as stated): on every entry into Night(WerewolfAction) the action
\* targets are null, the antidote flag is false and the vote map is empty,
\* while the spent-potion flags, the seats' isAlive and both chat histories
\* are what they were just before; on every entry into Voting the vote map
\* is empty
C36_EntryResets ==
  [][/\ EntersNight
          => /\ gs'.wolvesTargetId = Null
             /\ gs'.seerCheckId = Null
             /\ gs'.hunterTargetId = Null
             /\ gs'.witchAction = [save |-> FALSE, poisonTargetId |-> Null]
             /\ gs'.currentVotes = << >>
             /\ gs'.witchSaveUsed = gs.witchSaveUsed
             /\ gs'.witchPoisonUsed = gs.witchPoisonUsed
             /\ AliveFlags(gs') = AliveFlags(gs)
             /\ gs'.publicChatHistory = gs.publicChatHistory
             /\ gs'.wolfChatHistory = gs.wolfChatHistory
     /\ (gs.phase # "VOTING" /\ gs'.phase = "VOTING")
          => gs'.currentVotes = << >>]_vars

\* a first night in which nobody confirms by hand: the host's one-second
\* timeout keeps firing and awaited narrative calls return
NextCountdown ==
  \/ Join(gs.config.totalPlayers)
  \/ StartGame(0)
  \/ StartNight
  \/ WolfSelect
  \/ WitchPoison
  \/ Tick
  \/ RunCallback

SpecCountdown ==
  Init /\ [][NextCountdown]_vars /\ WF_vars(Tick) /\ WF_vars(RunCallback)

\* the night after result publications, with the host's timer ticking and
\* every pending timeout firing
SpecRenightLive ==
  InitRevote /\ [][NextRenight]_vars /\ WF_vars(Tick) /\ WF_vars(RunTimeout)

\* C37 (as stated): from every host state in a timed night step, with the
\* timer ticking and no manual confirm needed, the host eventually reaches
\* DayTransition
C37_TimedStepEnds ==
  (gs.phase = "NIGHT" /\ gs.nightStep \in TimedSteps) ~> gs.phase = "DAY_TRANSITION"

\* the host applies a WitchPoison that names seat t during the Witch's step
PoisonStep(t) ==
  /\ gs.phase = "NIGHT" /\ gs.nightStep = "WITCH_ACTION"
  /\ gs' = handleWitchAction(gs, "poison", t)
  /\ pending' = pending

\* C38 (as stated): a WitchPoison that names seat t, seat 0 included,
\* records t as the poison target
C38_PoisonRecorded ==
  [][\A t \in Seats(gs) :
       PoisonStep(t) => gs'.witchAction.poisonTargetId = t]_vars

\* C39 (as stated): the seated players never outnumber the configured
\* seats, roles are assigned only at a full table of exactly that size, and
\* outside the Lobby no step adds a player
C39_SeatsWithinTotal ==
  [][/\ Len(gs'.players) <= gs'.config.totalPlayers
     /\ (gs.phase = "LOBBY" /\ gs'.phase = "ROLE_REVEAL")
          => Len(gs.players) = gs.config.totalPlayers
     /\ gs.phase # "LOBBY" => Len(gs'.players) = Len(gs.players)]_vars

\* seats alive in state g and dead in state h
DiedBetween(g, h) ==
  { i \in DOMAIN g.players :
      i \in DOMAIN h.players /\ g.players[i].isAlive /\ ~h.players[i].isAlive }

\* C40 (as stated): while the phase is Voting, at most one seat that was
\* alive when a result of this phase was published is dead, however often
\* the result is published and whatever votes arrive in between
C40_OneExilePerVoting ==
  gs.phase = "VOTING" =>
    \A k \in DOMAIN pending :
      pending[k].kind \in {"TieStartNight", "HunterExile", "VictoryCheck"}
        => Cardinality(DiedBetween(pending[k].stale, gs)) <= 1

====
